---- MODULE Spec2Model ----
(***************************************************************************)
(* Model of the multithreaded TCP port scanner (port_scanner_mt.py, lines  *)
(* 42-226 of src/generate_password.py): the main thread of main(), the     *)
(* ThreadPoolExecutor it drives, and scan_port as a function of what the   *)
(* network does on a port.  The to-do list manager of                      *)
(* src/Smart_Task_Manage.py is modelled beside it as a second program over *)
(* its own variable, the task list of tasks.json.                          *)
(***************************************************************************)
EXTENDS Integers, Sequences, FiniteSets, TLC

VARIABLES
    args,            \* parsed command line: start, end, workers, banner, timeout
    resolvable,      \* whether socket.gethostbyname(target) succeeds
    platform,        \* the OS the scan runs on (decides the errno values)
    net,             \* port -> what the host and the socket layer do on that port
    pc,              \* position of the main thread in main()
    ports,           \* list(range(start_port, end_port + 1))
    submitted,       \* number of ports of `ports` already passed to exe.submit
    future,          \* port -> state of its Future ("PENDING", "RUNNING", "FINISHED")
    retval,          \* port -> result dict stored in its finished Future
    queue,           \* the executor's work queue: ports, first in first out
    shutdown,        \* the executor's _shutdown flag
    threads,         \* len(exe._threads): worker threads started so far
    exited,          \* worker threads that have ended
    yielded,         \* ports whose future as_completed has already yielded
    res,             \* the result in hand in the collection loop (<<>> when none)
    results,         \* the list `results`
    open_count,      \* the counter `open_count`
    exc,             \* a KeyboardInterrupt is propagating out of the with block
    interrupts,      \* KeyboardInterrupts delivered to the main thread so far
    reported,        \* the open count printed at line 200 (-1 before)
    results_sorted,  \* the list `results_sorted`
    sink,            \* the lists handed to save_results_csv/json, in order
    tasks            \* Smart_Task_Manage.py: the task list kept in tasks.json

vars == <<args, resolvable, platform, net, pc, ports, submitted, future, retval,
          queue, shutdown, threads, exited, yielded, res, results, open_count,
          exc, interrupts, reported, results_sorted, sink, tasks>>

\* The variables of the port scanner.
scanner_vars ==
    <<args, resolvable, platform, net, pc, ports, submitted, future, retval,
      queue, shutdown, threads, exited, yielded, res, results, open_count,
      exc, interrupts, reported, results_sorted, sink>>

-----------------------------------------------------------------------------
(* Bounds of the model *)

MaxPorts == 3        \* longest port range scanned
MaxWorkers == 2      \* largest --workers value
MaxInterrupts == 2   \* Ctrl-C presses delivered during one run
MaxTasks == 2        \* longest task list of the to-do list manager

(* Program constants *)

MinPort == 1
MaxPort == 65535
RecvSize == 1024

-----------------------------------------------------------------------------
(* scan_port *)

Platforms == {"linux", "windows", "darwin"}

\* errno values connect_ex returns on each platform for a refusal
\* (ECONNREFUSED), an expired timeout (EAGAIN / WSAEWOULDBLOCK) and an
\* unreachable host (EHOSTUNREACH).
Errno ==
    [linux   |-> [refused |-> 111,   timeout |-> 11,    unreachable |-> 113],
     windows |-> [refused |-> 10061, timeout |-> 10035, unreachable |-> 10065],
     darwin  |-> [refused |-> 61,    timeout |-> 35,    unreachable |-> 65]]

\* The codes line 128 takes for a refusal.
RefusedCodes == {111, 10061}

\* s.connect_ex((target_ip, port)): 0 when the connection is established,
\* the platform's errno otherwise.
connect_ex(o, plat) ==
    IF o.conn = "established" THEN 0 ELSE Errno[plat][o.conn]

IsSpace(c) == c \in {" ", "\n", "\r", "\t"}

\* str.strip(): drop leading and trailing whitespace.
RECURSIVE LStrip(_)
LStrip(s) ==
    IF s # <<>> /\ IsSpace(Head(s)) THEN LStrip(Tail(s)) ELSE s

RECURSIVE RStrip(_)
RStrip(s) ==
    IF s # <<>> /\ IsSpace(s[Len(s)]) THEN RStrip(SubSeq(s, 1, Len(s) - 1)) ELSE s

strip(s) == LStrip(RStrip(s))

\* bytes.decode(errors="replace"): an undecodable byte becomes U+FFFD; it
\* never raises, so the repr() fallback of lines 120-121 is not reachable.
decode(b) == [i \in 1..Len(b) |-> IF b[i] = "xFF" THEN "uFFFD" ELSE b[i]]

\* s.recv(1024): at most RecvSize bytes of what the peer sent.
recv(data) ==
    IF Len(data) <= RecvSize THEN data ELSE SubSeq(data, 1, RecvSize)

NewResult(port) ==
    [port |-> port, status |-> "closed", service |-> "", banner |-> <<>>, error |-> ""]

grab_banner_Propagates(result, o, do_banner) ==
    IF do_banner /\ o.recv = "raise"
    THEN [result EXCEPT !.status = "filtered", !.error = "timed out"]
    ELSE IF do_banner /\ o.recv = "data" /\ recv(o.data) # <<>>
    THEN [result EXCEPT !.banner = strip(decode(recv(o.data)))]
    ELSE result

\* Lines 111-124: the optional banner read on an established connection.
grab_banner(result, o, do_banner) ==
    IF do_banner /\ o.recv = "data" /\ recv(o.data) # <<>>
    THEN [result EXCEPT !.banner = strip(decode(recv(o.data)))]
    ELSE result

\* Lines 104-132: classification of connect_ex's return value.
classify(result, o, do_banner, plat) ==
    LET err == connect_ex(o, plat) IN
    IF err = 0
    THEN grab_banner([result EXCEPT !.status = "open", !.service = o.service],
                     o, do_banner)
    ELSE IF err \in RefusedCodes
         THEN [result EXCEPT !.status = "closed"]
         ELSE [result EXCEPT !.status = "filtered"]

probe_run_DropsMessage(port, o, timeout, do_banner, plat) ==
    LET r0 == NewResult(port) IN
    IF o.create # "ok"
    THEN [result |-> [r0 EXCEPT !.status = "filtered"], sock |-> "none"]
    ELSE IF timeout < 0
    THEN [result |-> [r0 EXCEPT !.status = "filtered"], sock |-> "leaked"]
    ELSE IF o.conn = "timeout_exc"
    THEN [result |-> [r0 EXCEPT !.status = "filtered"], sock |-> "leaked"]
    ELSE LET r1 == classify(r0, o, do_banner, plat) IN
         IF o.close = "ok"
         THEN [result |-> r1, sock |-> "closed"]
         ELSE [result |-> [r1 EXCEPT !.status = "filtered"], sock |-> "closed"]

probe_run_KeepsStatus(port, o, timeout, do_banner, plat) ==
    LET r0 == NewResult(port) IN
    IF o.create # "ok"
    THEN [result |-> [r0 EXCEPT !.error = o.create], sock |-> "none"]
    ELSE IF timeout < 0
    THEN [result |-> [r0 EXCEPT !.error = "Timeout value out of range"],
          sock |-> "leaked"]
    ELSE IF o.conn = "timeout_exc"
    THEN [result |-> [r0 EXCEPT !.status = "filtered"], sock |-> "leaked"]
    ELSE LET r1 == classify(r0, o, do_banner, plat) IN
         IF o.close = "ok"
         THEN [result |-> r1, sock |-> "closed"]
         ELSE [result |-> [r1 EXCEPT !.error = o.close], sock |-> "closed"]

\* The whole of scan_port: the result dict it returns and what became of the
\* socket it created ("none": never created, "closed": s.close() was called,
\* "leaked": still open when scan_port returns).
\*   o.create  "ok" | an exception message: socket.socket() raises
\*   timeout   s.settimeout(timeout) raises ValueError when timeout < 0
\*   o.conn    "established" | "refused" | "timeout" | "unreachable" |
\*             "timeout_exc" (socket.timeout is raised) | "none" (no socket)
\*   o.close   "ok" | an exception message: s.close() raises
probe_run(port, o, timeout, do_banner, plat) ==
    LET r0 == NewResult(port) IN
    IF o.create # "ok"
    THEN [result |-> [r0 EXCEPT !.status = "filtered", !.error = o.create],
          sock |-> "none"]
    ELSE IF timeout < 0
    THEN [result |-> [r0 EXCEPT !.status = "filtered",
                                !.error = "Timeout value out of range"],
          sock |-> "leaked"]
    ELSE IF o.conn = "timeout_exc"
    THEN [result |-> [r0 EXCEPT !.status = "filtered"], sock |-> "leaked"]
    ELSE LET r1 == classify(r0, o, do_banner, plat) IN
         IF o.close = "ok"
         THEN [result |-> r1, sock |-> "closed"]
         ELSE [result |-> [r1 EXCEPT !.status = "filtered", !.error = o.close],
               sock |-> "closed"]

scan_port(port, o, timeout, do_banner, plat) ==
    probe_run(port, o, timeout, do_banner, plat).result

-----------------------------------------------------------------------------
(* What the network does on a port *)

Outcome(create, conn, service, rcv, data, close) ==
    [create |-> create, conn |-> conn, service |-> service, recv |-> rcv,
     data |-> data, close |-> close]

\* What a peer may send before the banner read: nothing, whitespace only,
\* text with a line end, a byte that does not decode.
DataChoices == {<<>>, <<" ">>, <<"S", "\n">>, <<"xFF">>}

\* Every path through scan_port.
ProbeOutcomes ==
    {Outcome("EMFILE", "none", "", "raise", <<>>, "ok")}
    \cup {Outcome("ok", "timeout_exc", "", "raise", <<>>, "ok")}
    \cup {Outcome("ok", c, "", "raise", <<>>, cl) :
            c \in {"refused", "timeout", "unreachable"}, cl \in {"ok", "EIO"}}
    \cup {Outcome("ok", "established", sv, "raise", <<>>, cl) :
            sv \in {"", "echo"}, cl \in {"ok", "EIO"}}
    \cup {Outcome("ok", "established", sv, "data", d, cl) :
            sv \in {"", "echo"}, d \in DataChoices, cl \in {"ok", "EIO"}}

\* The outcomes drawn per port when a whole range is scanned: a port that
\* accepts and sends a banner, one that refuses, one that never answers.
ScanOutcomes ==
    {Outcome("ok", "established", "echo", "data", <<"S", "\n">>, "ok"),
     Outcome("ok", "refused", "", "raise", <<>>, "ok"),
     Outcome("ok", "timeout", "", "raise", <<>>, "ok")}

-----------------------------------------------------------------------------
(* main: validation and finalization helpers *)

Max(a, b) == IF a >= b THEN a ELSE b
Min(a, b) == IF a <= b THEN a ELSE b

start_port_Unclamped == args.start

start_port == Max(MinPort, args.start)
end_port == Min(MaxPort, args.end)

Range_DropsLast(a, b) == [i \in 1..(b - a) |-> a + i - 1]

\* list(range(a, b + 1))
Range(a, b) == [i \in 1..(b - a + 1) |-> a + i - 1]

\* The ports a run with command line `a` scans (none when the range is invalid).
PortsOf(a) ==
    LET s == Max(MinPort, a.start)
        e == Min(MaxPort, a.end)
    IN  IF s > e THEN {} ELSE s..e

InsertByPort_Front(r, s) == <<r>> \o s

\* sorted(results, key=lambda x: x["port"]): a stable sort by port.
RECURSIVE InsertByPort(_, _)
InsertByPort(r, s) ==
    IF s = <<>> THEN <<r>>
    ELSE IF r.port < Head(s).port THEN <<r>> \o s
    ELSE <<Head(s)>> \o InsertByPort(r, Tail(s))

sorted_KeepsOrder(s) == s

RECURSIVE sorted(_)
sorted(s) ==
    IF s = <<>> THEN <<>>
    ELSE InsertByPort(s[Len(s)], sorted(SubSeq(s, 1, Len(s) - 1)))

\* Ports whose probe is in flight: started by a worker and not yet returned.
InFlight == {p \in DOMAIN future : future[p] = "RUNNING"}

\* Worker threads blocked in work_queue.get().
Idle == threads - exited - Cardinality(InFlight)

-----------------------------------------------------------------------------
(* Initial states *)

\* The state after parse_args, before main's first statement, for a command
\* line `a` and per-port outcomes drawn from `outcomes`.
Boot(a, outcomes) ==
    /\ args = a
    /\ resolvable \in BOOLEAN
    /\ net \in [PortsOf(a) -> outcomes]
    /\ pc = "resolve"
    /\ ports = <<>>
    /\ submitted = 0
    /\ future = <<>>
    /\ retval = <<>>
    /\ queue = <<>>
    /\ shutdown = FALSE
    /\ threads = 0
    /\ exited = 0
    /\ yielded = {}
    /\ res = <<>>
    /\ results = <<>>
    /\ open_count = 0
    /\ exc = FALSE
    /\ interrupts = 0
    /\ reported = -1
    /\ results_sorted = <<>>
    /\ sink = <<>>
    /\ tasks = <<>>

\* Scans of every range within 1..MaxPorts with up to MaxWorkers workers.
Init ==
    /\ platform = "linux"
    /\ \E s \in 1..MaxPorts, e \in 1..MaxPorts, n \in 1..MaxWorkers :
          Boot([start |-> s, end |-> e, workers |-> n, banner |-> TRUE,
                timeout |-> 1], ScanOutcomes)

\* Scans of one port, on every platform, with and without --banner, with a
\* valid and a negative --timeout, over every path through scan_port.
ProbeInit ==
    /\ platform \in Platforms
    /\ \E b \in BOOLEAN, t \in {-1, 1} :
          Boot([start |-> 1, end |-> 1, workers |-> 1, banner |-> b,
                timeout |-> t], ProbeOutcomes)

\* Requested --start/--end values around both ends of the port space.
Requested == {-1, 0, 1, 2, 65534, 65535, 65536, 65537}

\* Scans by one worker of every requested range that is invalid or at most
\* MaxPorts ports long.
EnumInit ==
    /\ platform = "linux"
    /\ \E s \in Requested, e \in Requested :
          /\ Min(MaxPort, e) - Max(MinPort, s) < MaxPorts
          /\ Boot([start |-> s, end |-> e, workers |-> 1, banner |-> TRUE,
                   timeout |-> 1], ScanOutcomes)

-----------------------------------------------------------------------------
(* The main thread: main() *)

\* Lines 156-159.
Resolve ==
    /\ pc = "resolve"
    /\ pc' = IF resolvable THEN "validate" ELSE "exit1"
    /\ UNCHANGED tasks
    /\ UNCHANGED <<args, resolvable, platform, net, ports, submitted, future,
                   retval, queue, shutdown, threads, exited, yielded, res,
                   results, open_count, exc, interrupts, reported,
                   results_sorted, sink>>

\* Lines 162-180: the range is clamped and checked, the port list built, the
\* (empty) result list, the counter and the executor created.
Validate ==
    /\ pc = "validate"
    /\ IF start_port > end_port
       THEN pc' = "exit1" /\ ports' = ports
       ELSE pc' = "submit" /\ ports' = Range(start_port, end_port)
    /\ UNCHANGED tasks
    /\ UNCHANGED <<args, resolvable, platform, net, submitted, future, retval,
                   queue, shutdown, threads, exited, yielded, res, results,
                   open_count, exc, interrupts, reported, results_sorted, sink>>

adjust_thread_count_NoLimit == threads' = threads + 1

\* ThreadPoolExecutor._adjust_thread_count, called by submit: a new worker
\* thread is started while fewer than max_workers exist; once a thread
\* exists the executor may find an idle one and start none.
adjust_thread_count ==
    IF threads < args.workers
    THEN \/ threads' = threads + 1
         \/ threads >= 1 /\ threads' = threads
    ELSE threads' = threads

\* Line 181, one iteration of the dict comprehension: exe.submit(scan_port,
\* target_ip, p, ...) for the next port of the list. After the last port the
\* main thread enters the try block.
Submit ==
    /\ pc = "submit"
    /\ submitted < Len(ports)
    /\ LET p == ports[submitted + 1] IN
          /\ future' = (p :> "PENDING") @@ future
          /\ queue' = Append(queue, p)
    /\ adjust_thread_count
    /\ submitted' = submitted + 1
    /\ pc' = IF submitted + 1 = Len(ports) THEN "iter" ELSE "submit"
    /\ UNCHANGED tasks
    /\ UNCHANGED <<args, resolvable, platform, net, ports, retval, shutdown,
                   exited, yielded, res, results, open_count, exc, interrupts,
                   reported, results_sorted, sink>>

NextCompleted_InSubmissionOrder ==
    /\ pc = "iter"
    /\ \E p \in DOMAIN future \ yielded :
          /\ \A q \in DOMAIN future \ yielded : p <= q
          /\ future[p] = "FINISHED"
          /\ yielded' = yielded \cup {p}
          /\ res' = <<retval[p]>>
    /\ pc' = "got"
    /\ UNCHANGED tasks
    /\ UNCHANGED <<args, resolvable, platform, net, ports, submitted, future,
                   retval, queue, shutdown, threads, exited, results,
                   open_count, exc, interrupts, reported, results_sorted, sink>>

\* Lines 183-184: as_completed yields a finished future it has not yielded
\* yet, whichever it is, and fut.result() returns its dict.
NextCompleted ==
    /\ pc = "iter"
    /\ \E p \in DOMAIN future \ yielded :
          /\ future[p] = "FINISHED"
          /\ yielded' = yielded \cup {p}
          /\ res' = <<retval[p]>>
    /\ pc' = "got"
    /\ UNCHANGED tasks
    /\ UNCHANGED <<args, resolvable, platform, net, ports, submitted, future,
                   retval, queue, shutdown, threads, exited, results,
                   open_count, exc, interrupts, reported, results_sorted, sink>>

\* Line 185.
AppendResult ==
    /\ pc = "got"
    /\ results' = Append(results, res[1])
    /\ pc' = "appended"
    /\ UNCHANGED tasks
    /\ UNCHANGED <<args, resolvable, platform, net, ports, submitted, future,
                   retval, queue, shutdown, threads, exited, yielded, res,
                   open_count, exc, interrupts, reported, results_sorted, sink>>

\* Lines 186-191.
CountOpen ==
    /\ pc = "appended"
    /\ open_count' = IF res[1].status = "open" THEN open_count + 1 ELSE open_count
    /\ res' = <<>>
    /\ pc' = "iter"
    /\ UNCHANGED tasks
    /\ UNCHANGED <<args, resolvable, platform, net, ports, submitted, future,
                   retval, queue, shutdown, threads, exited, yielded, results,
                   exc, interrupts, reported, results_sorted, sink>>

\* Line 183: as_completed is exhausted, the for loop and the try block end.
LoopEnd ==
    /\ pc = "iter"
    /\ yielded = DOMAIN future
    /\ pc' = "exit"
    /\ UNCHANGED tasks
    /\ UNCHANGED <<args, resolvable, platform, net, ports, submitted, future,
                   retval, queue, shutdown, threads, exited, yielded, res,
                   results, open_count, exc, interrupts, reported,
                   results_sorted, sink>>

\* Lines 192-194: the handler calls exe.shutdown(wait=False), which sets the
\* shutdown flag and cancels nothing.
Handler ==
    /\ pc = "handler"
    /\ shutdown' = TRUE
    /\ pc' = "exit"
    /\ UNCHANGED tasks
    /\ UNCHANGED <<args, resolvable, platform, net, ports, submitted, future,
                   retval, queue, threads, exited, yielded, res, results,
                   open_count, exc, interrupts, reported, results_sorted, sink>>

\* Line 180, leaving the with block: __exit__ calls shutdown(wait=True),
\* which sets the shutdown flag ...
ExitShutdown ==
    /\ pc = "exit"
    /\ shutdown' = TRUE
    /\ pc' = "join"
    /\ UNCHANGED tasks
    /\ UNCHANGED <<args, resolvable, platform, net, ports, submitted, future,
                   retval, queue, threads, exited, yielded, res, results,
                   open_count, exc, interrupts, reported, results_sorted, sink>>

\* ... and joins every worker thread; then a propagating exception leaves
\* main, and otherwise main goes on to line 197.
Join ==
    /\ pc = "join"
    /\ exited = threads
    /\ pc' = IF exc THEN "failed" ELSE "finalize"
    /\ UNCHANGED tasks
    /\ UNCHANGED <<args, resolvable, platform, net, ports, submitted, future,
                   retval, queue, shutdown, threads, exited, yielded, res,
                   results, open_count, exc, interrupts, reported,
                   results_sorted, sink>>

\* Lines 197-204: the counter is printed and the results sorted.
Finalize ==
    /\ pc = "finalize"
    /\ reported' = open_count
    /\ results_sorted' = sorted(results)
    /\ pc' = "save"
    /\ UNCHANGED tasks
    /\ UNCHANGED <<args, resolvable, platform, net, ports, submitted, future,
                   retval, queue, shutdown, threads, exited, yielded, res,
                   results, open_count, exc, interrupts, sink>>

\* Lines 220-223: results_sorted is handed to the two writers.
Save ==
    /\ pc = "save"
    /\ sink' = Append(sink, results_sorted)
    /\ pc' = "done"
    /\ UNCHANGED tasks
    /\ UNCHANGED <<args, resolvable, platform, net, ports, submitted, future,
                   retval, queue, shutdown, threads, exited, yielded, res,
                   results, open_count, exc, interrupts, reported,
                   results_sorted>>

-----------------------------------------------------------------------------
(* KeyboardInterrupt, raised in the main thread between two of its steps *)

\* During line 181, which is outside the try block: the exception leaves
\* the with block.
InterruptSubmit ==
    /\ pc = "submit"
    /\ interrupts < MaxInterrupts
    /\ interrupts' = interrupts + 1
    /\ exc' = TRUE
    /\ pc' = "exit"
    /\ UNCHANGED tasks
    /\ UNCHANGED <<args, resolvable, platform, net, ports, submitted, future,
                   retval, queue, shutdown, threads, exited, yielded, res,
                   results, open_count, reported, results_sorted, sink>>

\* Inside the try block (lines 183-191): control goes to the handler.
InterruptCollect ==
    /\ pc \in {"iter", "got", "appended"}
    /\ interrupts < MaxInterrupts
    /\ interrupts' = interrupts + 1
    /\ pc' = "handler"
    /\ UNCHANGED tasks
    /\ UNCHANGED <<args, resolvable, platform, net, ports, submitted, future,
                   retval, queue, shutdown, threads, exited, yielded, res,
                   results, open_count, exc, reported, results_sorted, sink>>

\* Inside the handler (lines 193-194): the exception leaves the with block.
InterruptHandler ==
    /\ pc = "handler"
    /\ interrupts < MaxInterrupts
    /\ interrupts' = interrupts + 1
    /\ exc' = TRUE
    /\ pc' = "exit"
    /\ UNCHANGED tasks
    /\ UNCHANGED <<args, resolvable, platform, net, ports, submitted, future,
                   retval, queue, shutdown, threads, exited, yielded, res,
                   results, open_count, reported, results_sorted, sink>>

\* Inside __exit__, while it waits for the workers: the exception leaves
\* __exit__ and main at once; the interpreter's exit hook then sets the
\* shutdown flag and lets the workers finish.
InterruptExit ==
    /\ pc \in {"exit", "join"}
    /\ interrupts < MaxInterrupts
    /\ interrupts' = interrupts + 1
    /\ exc' = TRUE
    /\ shutdown' = TRUE
    /\ pc' = "failed"
    /\ UNCHANGED tasks
    /\ UNCHANGED <<args, resolvable, platform, net, ports, submitted, future,
                   retval, queue, threads, exited, yielded, res, results,
                   open_count, reported, results_sorted, sink>>

-----------------------------------------------------------------------------
(* The worker threads: concurrent.futures.thread._worker *)

\* work_queue.get() and the start of work_item.run(): an idle worker claims
\* the oldest queued port and its probe starts.
Claim ==
    /\ Idle > 0
    /\ queue # <<>>
    /\ future' = [future EXCEPT ![Head(queue)] = "RUNNING"]
    /\ queue' = Tail(queue)
    /\ UNCHANGED tasks
    /\ UNCHANGED <<args, resolvable, platform, net, pc, ports, submitted,
                   retval, shutdown, threads, exited, yielded, res, results,
                   open_count, exc, interrupts, reported, results_sorted, sink>>

\* scan_port returns for port p, the future is given its result and the
\* worker goes back to the queue.
Return(p) ==
    /\ future[p] = "RUNNING"
    /\ retval' = (p :> scan_port(p, net[p], args.timeout, args.banner,
                                 platform)) @@ retval
    /\ future' = [future EXCEPT ![p] = "FINISHED"]
    /\ UNCHANGED tasks
    /\ UNCHANGED <<args, resolvable, platform, net, pc, ports, submitted,
                   queue, shutdown, threads, exited, yielded, res, results,
                   open_count, exc, interrupts, reported, results_sorted, sink>>

ProbeReturns == \E p \in DOMAIN future : Return(p)

\* An idle worker finds the queue drained and the executor shut down, and
\* ends.
WorkerExit ==
    /\ Idle > 0
    /\ queue = <<>>
    /\ shutdown
    /\ exited' = exited + 1
    /\ UNCHANGED tasks
    /\ UNCHANGED <<args, resolvable, platform, net, pc, ports, submitted,
                   future, retval, queue, shutdown, threads, yielded, res,
                   results, open_count, exc, interrupts, reported,
                   results_sorted, sink>>

-----------------------------------------------------------------------------

\* The exit status of the process: sys.exit(1) at lines 159 and 166, zero
\* when main returns, nonzero when a KeyboardInterrupt leaves main uncaught.
exit_status ==
    IF pc = "exit1" \/ pc = "failed" THEN "nonzero"
    ELSE IF pc = "done" THEN "zero"
    ELSE "running"

MainStep ==
    \/ Resolve
    \/ Validate
    \/ Submit
    \/ NextCompleted
    \/ AppendResult
    \/ CountOpen
    \/ LoopEnd
    \/ Handler
    \/ ExitShutdown
    \/ Join
    \/ Finalize
    \/ Save

Interrupt ==
    \/ InterruptSubmit
    \/ InterruptCollect
    \/ InterruptHandler
    \/ InterruptExit

WorkerStep ==
    \/ Claim
    \/ ProbeReturns
    \/ WorkerExit

Next == MainStep \/ Interrupt \/ WorkerStep

Spec == Init /\ [][Next]_vars

\* The interpreter keeps running the main thread and the worker threads; a
\* KeyboardInterrupt need never come.
FairSpec == Spec /\ WF_vars(MainStep) /\ WF_vars(WorkerStep)

ProbeSpec == ProbeInit /\ [][Next]_vars

EnumSpec == EnumInit /\ [][Next]_vars

-----------------------------------------------------------------------------
(* Smart_Task_Manage.py: the to-do list manager *)

\* What the user may type.  A title is taken after .strip(), "" being an
\* empty line; a priority is any integer; a deadline is 0 when strptime
\* rejects the text and otherwise the rank of the text among the dates
\* typed, in the order Python compares the strings.
Titles == {"", "a", "b"}
PriorityInputs == 0..4
DeadlineInputs == 0..2

\* Line 37: the priorities add_task accepts.
Priorities == {1, 2, 3}

\* Line 22: the sort key (priority, deadline), compared as Python compares
\* tuples.
KeyLess(a, b) ==
    \/ a.priority < b.priority
    \/ a.priority = b.priority /\ a.deadline < b.deadline

\* Line 22: sorted() is stable: of two tasks with equal keys the one that
\* comes first in the list is shown first.  The display order is given as
\* the sequence of list indices, first shown first.
ShownBefore(ts, i, j) ==
    \/ KeyLess(ts[i], ts[j])
    \/ ~KeyLess(ts[j], ts[i]) /\ i < j

display_order(ts) ==
    [k \in 1..Len(ts) |->
        CHOOSE i \in 1..Len(ts) :
            Cardinality({j \in 1..Len(ts) : ShownBefore(ts, j, i)}) = k - 1]

\* Lines 17-27: the numbered list show_tasks prints; the list it was given
\* is left as it is, the sorted list being a local copy.
show_tasks(ts) ==
    [k \in 1..Len(ts) |-> ts[display_order(ts)[k]]]

\* Lines 29-54: add_task appends a pending task unless the title is empty,
\* the priority is not 1, 2 or 3, or the deadline is not a date.
add_task(ts, title, priority, deadline) ==
    IF title = "" THEN ts
    ELSE IF priority \notin Priorities THEN ts
    ELSE IF deadline = 0 THEN ts
    ELSE Append(ts, [title |-> title, priority |-> priority,
                     deadline |-> deadline, done |-> FALSE])

\* Lines 56-71: mark_done with the number n typed by the user.
mark_done(ts, n) ==
    IF ts = <<>> THEN ts
    ELSE IF 1 <= n /\ n <= Len(ts) THEN [ts EXCEPT ![n].done = TRUE]
    ELSE ts

\* tasks.json does not exist when the program starts (lines 10-11), and the
\* port scanner, a separate program, is not run.
TaskInit ==
    /\ platform = "linux"
    /\ resolvable = TRUE
    /\ Boot([start |-> 1, end |-> 1, workers |-> 1, banner |-> FALSE,
             timeout |-> 1], {CHOOSE o \in ScanOutcomes : TRUE})

\* Menu choice 2 (lines 102-104).
AddTask ==
    /\ Len(tasks) < MaxTasks
    /\ \E title \in Titles, priority \in PriorityInputs,
          deadline \in DeadlineInputs :
            tasks' = add_task(tasks, title, priority, deadline)
    /\ UNCHANGED scanner_vars

\* Menu choice 3 (lines 105-107) with the number n typed at line 63.
MarkDone(n) ==
    /\ tasks' = mark_done(tasks, n)
    /\ UNCHANGED scanner_vars

MarkTaskDone == \E n \in 0..(MaxTasks + 1) : MarkDone(n)

TaskNext == AddTask \/ MarkTaskDone

TaskSpec == TaskInit /\ [][TaskNext]_vars

-----------------------------------------------------------------------------
(* Properties *)

PortsIn(s) == {s[i].port : i \in 1..Len(s)}

Occurrences(s, p) == Cardinality({i \in 1..Len(s) : s[i].port = p})

OpenIn(s) == Cardinality({i \in 1..Len(s) : s[i].status = "open"})

\* What the connect attempt of port p observes; "none" when scan_port fails
\* before it attempts one.
ConnectOutcome(p) ==
    IF net[p].create # "ok" \/ args.timeout < 0 THEN "none" ELSE net[p].conn

\* C1: on an uninterrupted run the final result collection (the list
\* `results`, and the sorted list handed to the writers) holds exactly one
\* result for each port of the clamped range and none for any other port.
C1_ExactlyOnePerPort ==
    (pc = "done" /\ interrupts = 0) =>
        /\ Len(sink) = 1
        /\ \A s \in {results, sink[1]} :
              /\ Len(s) = end_port - start_port + 1
              /\ PortsIn(s) \subseteq start_port..end_port
              /\ \A p \in start_port..end_port : Occurrences(s, p) = 1

\* An uninterrupted scan of a full-length range by several workers, whose
\* results were collected out of port order.
C1_Witness ==
    /\ pc = "done"
    /\ interrupts = 0
    /\ Len(ports) = MaxPorts
    /\ args.workers > 1
    /\ results # results_sorted

\* C2: once a KeyboardInterrupt has been delivered no probe starts any more:
\* the ports in flight after a step are among those in flight before it.
C2_NoStartAfterInterrupt ==
    [][interrupts > 0 => InFlight' \subseteq InFlight]_vars

\* C3: every probe that completed, before or after the interrupt, has its
\* result in the summary handed to the writers.
C3_NoCompletedResultDiscarded ==
    pc = "done" =>
        \A p \in DOMAIN retval :
            \E i \in 1..Len(sink[1]) : sink[1][i] = retval[p]

\* C4: a KeyboardInterrupt that arrives once scanning has begun never makes
\* the run fail.
C4_InterruptNeverFails ==
    ~(interrupts > 0 /\ pc = "failed")

\* C5: every run that starts scanning, interrupted or not, ends in Done with
\* the summary produced once: whenever neither the main thread nor a worker
\* can take another step, the main thread is at Done.
C5_StopsOnlyAtDone ==
    (pc \notin {"resolve", "validate", "exit1"} /\ ~ENABLED Next) =>
        (pc = "done" /\ Len(sink) = 1)

\* C6: the number of probes in flight never exceeds the --workers limit.
C6_InFlightBounded ==
    Cardinality(InFlight) <= args.workers

\* The pool is saturated at the largest limit while more ports wait.
C6_Witness ==
    /\ args.workers = MaxWorkers
    /\ Cardinality(InFlight) = args.workers
    /\ queue # <<>>

\* C7: every list handed to the writers is strictly ascending by port
\* (hence free of duplicate ports), on a natural and on a cancelled run.
C7_SinkStrictlySorted ==
    \A k \in 1..Len(sink) :
        \A i \in 1..(Len(sink[k]) - 1) : sink[k][i].port < sink[k][i + 1].port

\* A cancelled run that hands over at least two results which were
\* collected in descending port order.
C7_Witness ==
    /\ pc = "done"
    /\ interrupts > 0
    /\ Len(results) >= 2
    /\ results[1].port > results[2].port
    /\ sink[1] # results

\* C8: at finalization the reported open count is the number of results
\* with status open in the final list.
C8_OpenCountMatches ==
    pc = "done" => reported = OpenIn(sink[1])

\* C9: the status a probe returns is decided by the connect outcome: open
\* exactly when the connection was established, closed exactly when it was
\* refused, filtered otherwise; and an uninterrupted run counts exactly the
\* ports that accept connections.
C9_StatusDecidedByOutcome ==
    /\ \A p \in DOMAIN retval :
          /\ retval[p].status \in {"open", "closed", "filtered"}
          /\ retval[p].status = "open" <=> ConnectOutcome(p) = "established"
          /\ retval[p].status = "closed" <=> ConnectOutcome(p) = "refused"
    /\ (pc = "done" /\ interrupts = 0) =>
          reported = Cardinality({p \in DOMAIN net :
                                     ConnectOutcome(p) = "established"})

\* C10: a returned result has a non-empty banner only if its status is open
\* and banner capture was requested.
C10_BannerOnlyWhenOpen ==
    \A p \in DOMAIN retval :
        retval[p].banner # <<>> =>
            retval[p].status = "open" /\ args.banner

\* Clamping of x into [1, 65535], as the claim C11 reads the enumerator.
ClampBoth(x) == IF x < 1 THEN 1 ELSE IF x > 65535 THEN 65535 ELSE x

\* The port list is the ascending gap-free sequence lo..hi.
PortsAre(lo, hi) ==
    /\ Len(ports) = hi - lo + 1
    /\ \A i \in 1..Len(ports) : ports[i] = lo + i - 1

\* C11 as claimed: both requested values are clamped into [1, 65535]; the
\* run is rejected exactly when clamped start > clamped end, and otherwise
\* the port list is clamped start..clamped end.
C11_ClampsBothEnds ==
    (resolvable /\ pc \notin {"resolve", "validate"}) =>
        LET s == ClampBoth(args.start)
            e == ClampBoth(args.end)
        IN  /\ pc = "exit1" <=> s > e
            /\ s <= e => PortsAre(s, e)

\* C11 as amended: start is raised to at least 1 and end lowered to at most
\* 65535 (start is not lowered, end is not raised); the run is rejected
\* exactly when the resulting start exceeds the resulting end, and otherwise
\* the port list is the ascending gap-free sequence between them.
C11_ClampsStartUpEndDown ==
    (resolvable /\ pc \notin {"resolve", "validate"}) =>
        LET s == IF args.start < 1 THEN 1 ELSE args.start
            e == IF args.end > 65535 THEN 65535 ELSE args.end
        IN  /\ pc = "exit1" <=> s > e
            /\ s <= e => /\ PortsAre(s, e)
                         /\ \A i \in 1..Len(ports) : ports[i] \in 1..65535

\* A request reaching below 1 was accepted with its start raised to 1.
C11_Witness ==
    /\ args.start < 1
    /\ pc = "done"
    /\ Len(ports) = 2
    /\ ports[1] = 1

\* C12: when resolution fails or the range is invalid the run ends with a
\* nonzero exit status, no worker thread is started and no connection is
\* attempted; in every other case the run ends with exit status zero.
C12_ExitStatus ==
    /\ (~resolvable \/ start_port > end_port) =>
          /\ threads = 0
          /\ DOMAIN future = {}
          /\ pc \notin {"resolve", "validate"} => exit_status = "nonzero"
    /\ (resolvable /\ start_port <= end_port /\ exit_status # "running") =>
          exit_status = "zero"

\* What became of the socket of the finished probe of port p.
SocketOf(p) ==
    probe_run(p, net[p], args.timeout, args.banner, platform).sock

\* C13: every probe that has returned has closed the socket it created.
C13_SocketReleased ==
    \A p \in DOMAIN retval : SocketOf(p) # "leaked"

\* The message of the exception the classification rules do not anticipate
\* that is raised inside the probe of port p ("" when none is): from
\* socket.socket(), s.settimeout(timeout) or s.close().
Unanticipated(p) ==
    IF net[p].create # "ok" THEN net[p].create
    ELSE IF args.timeout < 0 THEN "Timeout value out of range"
    ELSE IF net[p].conn # "timeout_exc" /\ net[p].close # "ok" THEN net[p].close
    ELSE ""

\* C15: a probe in which an unanticipated exception is raised still returns
\* a result, with status filtered and the exception's message as its error.
C15_UnanticipatedBecomesFiltered ==
    /\ \A p \in DOMAIN future : future[p] = "RUNNING" => ENABLED Return(p)
    /\ \A p \in DOMAIN retval :
          Unanticipated(p) # "" =>
              /\ retval[p].port = p
              /\ retval[p].status = "filtered"
              /\ retval[p].error = Unanticipated(p)

\* Probes have returned after socket.socket() raised, after settimeout
\* raised and after s.close() raised on an established connection.
C15_Witness ==
    \E p \in DOMAIN retval :
        /\ net[p].create = "ok"
        /\ args.timeout > 0
        /\ net[p].conn = "established"
        /\ net[p].close # "ok"
        /\ retval[p].error = net[p].close

C18_ErrorImpliesFiltered ==
    \A p \in DOMAIN retval :
        retval[p].error # "" => retval[p].status = "filtered"

\* A probe has returned with an error after its connection was established.
C18_Witness ==
    \E p \in DOMAIN retval :
        /\ retval[p].error # ""
        /\ ConnectOutcome(p) = "established"

\* C17: while the collector waits in as_completed, every finished future it
\* has not yielded yet can be the one it takes next, whatever the state of
\* the other probes.
C17_CompletionOrder ==
    pc = "iter" =>
        \A p \in DOMAIN future \ yielded :
            future[p] = "FINISHED" =>
                ENABLED (NextCompleted /\ res' = <<retval[p]>>)

\* The collector waits, a probe has finished uncollected and the probe of
\* a lower-numbered, earlier-submitted port is still in flight.
C17_Witness ==
    /\ pc = "iter"
    /\ \E p \in DOMAIN future \ yielded, q \in DOMAIN future :
          /\ q < p
          /\ future[p] = "FINISHED"
          /\ future[q] = "RUNNING"

\* The summary the per-port outcomes decide: scan_port's result for each
\* port of the range, in port order.
ExpectedSummary ==
    [i \in 1..(end_port - start_port + 1) |->
        scan_port(start_port + i - 1, net[start_port + i - 1], args.timeout,
                  args.banner, platform)]

\* C19: on an uninterrupted run the sorted list handed to the writers and
\* the reported open count are a function of the range and of the per-port
\* outcomes alone, the same for every schedule.
C19_SummaryDecidedByOutcomes ==
    (pc = "done" /\ interrupts = 0) =>
        /\ sink[1] = ExpectedSummary
        /\ reported = OpenIn(ExpectedSummary)

\* An uninterrupted run of several workers that collected the last port of
\* a full-length range first and found an open port.
C19_Witness ==
    /\ pc = "done"
    /\ interrupts = 0
    /\ args.workers > 1
    /\ Len(results) = MaxPorts
    /\ results[1].port = end_port
    /\ reported > 0

\* C14: when the interrupt is delivered after k probes have returned, the
\* summary holds at least k and at most n results.  The handler appends
\* nothing (lines 192-194), so the summary is the list `results` as the
\* interrupt leaves it: the list is not touched once the loop is left, and
\* the writers receive it sorted.
C14_SummaryKeepsCompleted ==
    [][/\ InterruptCollect =>
              /\ Cardinality({p \in DOMAIN future : future[p] = "FINISHED"})
                     <= Len(results')
              /\ Len(results') <= Len(ports)
       /\ pc \in {"handler", "exit", "join", "finalize", "save"} =>
              results' = results
       /\ (pc = "save" /\ pc' = "done") =>
              Len(sink'[1]) = Len(results)]_vars

\* C20: mark_done with a valid number n sets done on exactly the task that
\* the displayed list, sorted by priority and then deadline, shows at
\* position n, and leaves every other task as it was.
C20_MarksDisplayedTask ==
    [][\A n \in 1..Len(tasks) :
          MarkDone(n) =>
              tasks' = [tasks EXCEPT ![display_order(tasks)[n]].done = TRUE]]_vars

====
